---------------------------- MODULE Spec2Model ----------------------------
(***************************************************************************)
(* A model of dataset.py: the feature normalizers Dataset.padLyrics and    *)
(* Dataset.padNote, the paired Dataset (construction, __len__,             *)
(* __getitem__, shuffle) as load() builds it, and the decoder vec2midi.    *)
(*                                                                         *)
(* Python lists are sequences (1-based here, 0-based in the source), a     *)
(* dict is a function from its keys, and the two dicts load() creates live *)
(* in a heap so that two Dataset objects holding the same dict see each    *)
(* other's writes, as Python objects do.                                   *)
(***************************************************************************)
EXTENDS Integers, Sequences, FiniteSets

VARIABLES
  pc,          \* where the run is: "file", "loaded", "raw", "padded", ...
  op,          \* the call made last: [name, d, i]
  records,     \* the rows of the record file read by load()
  batch_size,  \* config.translator.batch_size / config.autoencoder.batch_size
  heap,        \* the dicts inp and tar of load(), by name
  ds,          \* the Dataset objects: [inp, tar, bs, size], inp/tar are dict names
  result,      \* what the last call returned or raised (NoResult: None)
  data,        \* the dict handed to padLyrics / padNote
  pv,          \* pad_value
  padded,      \* the column padLyrics / padNote returned
  vec,         \* the (note, tempo) pair handed to vec2midi
  midi         \* the MIDIFile vec2midi returned

vars == <<pc, op, records, batch_size, heap, ds, result, data, pv, padded, vec, midi>>

---------------------------------------------------------------------------
(* config.* values read by the code *)

\* config.music.Ci: number of channels of a note matrix
Ci == 2
\* config.music.L: number of events of a channel
L == 2
\* config.lyrics.L: number of tokens of a lyrics vector
LyricsL == 2
\* config.tempo.default: the tempo scale
TempoDefault == 120
\* config.music.feat2id: named field -> raw feature id
feat2id == [pitch |-> 0, time |-> 1, duration |-> 2, volume |-> 3]

(* bounds of the model *)

\* lyric tokens are 0..MaxTok
MaxTok == 2
\* a raw lyrics vector has at most MaxLyrLen tokens
MaxLyrLen == 3
\* note ids of the matrices given to padNote alone are 1..MaxNoteEmb
MaxNoteEmb == 2
\* a record file of the shuffling runs has at most MaxSize rows
MaxSize == 3
\* a record file of the batching runs has at most MaxFile rows
MaxFile == 7
\* batch sizes are 1..MaxBatch
MaxBatch == 3
\* one more channel / event than the fixed shape, so that truncation happens
MaxCh == Ci + 1
MaxEv == L + 1

---------------------------------------------------------------------------
(* helpers *)

Min(a, b) == IF a < b THEN a ELSE b

SeqsUpTo(S, n) == UNION { [1..k -> S] : k \in 0..n }

Range(s) == { s[k] : k \in DOMAIN s }

\* [v for _ in range(n)]
Repeat(v, n) == [k \in 1..n |-> v]

None == -1

\* s[begin:end] for begin >= 0, end >= 0 or None
PySlice(s, begin, end) ==
  LET hi == IF end = None THEN Len(s) ELSE Min(end, Len(s))
  IN  IF begin >= hi THEN <<>> ELSE SubSeq(s, begin + 1, hi)

\* the keys of a dict in insertion order; load() inserts lyrics | note, tempo
KeyOrder == <<"lyrics", "note", "tempo">>
Keys(b) == SelectSeq(KeyOrder, LAMBDA k : k \in DOMAIN b)
Values(b) == [j \in 1..Len(Keys(b)) |-> b[Keys(b)[j]]]

Idle == [name |-> "none", d |-> "-", i |-> -1]
NoResult == [kind |-> "none", index |-> -1, bound |-> -1, pair |-> <<>>]
NoMidi == [tracks |-> 0, tempo |-> <<>>, notes |-> <<>>]

---------------------------------------------------------------------------
(* Dataset.padLyrics, Dataset.padNote *)

padLyrics1Short(lyr, p) ==
  IF Len(lyr) < LyricsL THEN lyr \o Repeat(p, LyricsL - Len(lyr) - 1)
                        ELSE SubSeq(lyr, 1, LyricsL)

\* the inner padLyrics(lyr), pv from the enclosing call
padLyrics1(lyr, p) ==
  IF Len(lyr) < LyricsL THEN lyr \o Repeat(p, LyricsL - Len(lyr))
                        ELSE SubSeq(lyr, 1, LyricsL)

padLyrics(d, p) == [k \in 1..Len(d.lyrics) |-> padLyrics1(d.lyrics[k], p)]

padTrackCutOnly(track) == SubSeq(track, 1, Min(L, Len(track)))

\* one kept track: "if len(track) < L: yield track + [0 ...] else: yield track[:L]"
padTrack(track) ==
  IF Len(track) < L THEN track \o Repeat(0, L - Len(track))
                    ELSE SubSeq(track, 1, L)

padNote1NoFill(note) ==
  LET kept == IF Len(note) > Ci THEN SubSeq(note, 1, Ci) ELSE note
  IN  [c \in 1..Len(kept) |-> padTrack(kept[c])]

\* the inner generator padNote(note), collected by list()
padNote1(note) ==
  LET kept == IF Len(note) > Ci THEN SubSeq(note, 1, Ci) ELSE note
      tracks == [c \in 1..Len(kept) |-> padTrack(kept[c])]
      fill == IF Len(kept) < Ci THEN Repeat(Repeat(0, L), Ci - Len(kept)) ELSE <<>>
  IN  tracks \o fill

padNote(d) == [k \in 1..Len(d.note) |-> padNote1(d.note[k])]

---------------------------------------------------------------------------
(* vec2midi *)

\* m2v.id2Note: note id -> raw features, by raw feature id (pitch, time delta,
\* duration, volume).  Id 0 is the value padNote pads with.
id2NoteTable ==
  << <<0, 0, 0, 0>>, <<60, 10, 1, 100>>, <<62, 5, 1, 100>>,
     <<64, 3, 2, 90>>, <<65, -3, 1, 90>> >>

Emb == 0..(Len(id2NoteTable) - 1)

id2Note(note_emb) == [id \in 0..3 |-> id2NoteTable[note_emb + 1][id + 1]]

Tempos == {1, 2}

onsetNoSum(noteTime, time) == noteTime

onsetBack(noteTime, time) == time - noteTime

\* note['time'] = time = note['time'] + time
onset(noteTime, time) == noteTime + time

\* the body of "for note_emb in channel_notes", from the k-th embedding on,
\* with the running time of the events before it
RECURSIVE addNotes(_, _, _, _)
addNotes(channel, channel_notes, k, time) ==
  IF k > Len(channel_notes) THEN <<>>
  ELSE LET raw == id2Note(channel_notes[k])
           note == [feat \in DOMAIN feat2id |-> raw[feat2id[feat]]]
           t == onset(note.time, time)
       IN  << [track |-> channel, channel |-> channel, pitch |-> note.pitch,
               time |-> t, duration |-> note.duration, volume |-> note.volume] >>
           \o addNotes(channel, channel_notes, k + 1, t)

\* "for channel, channel_notes in enumerate(notes)", from channel c (0-based) on
RECURSIVE addChannels(_, _)
addChannels(notes, c) ==
  IF c >= Len(notes) THEN <<>>
  ELSE addNotes(c, notes[c + 1], 1, 0) \o addChannels(notes, c + 1)

\* the MIDIFile: its track count, the addTempo call, the addNote calls in order
vec2midi(v) ==
  [tracks |-> Ci,
   tempo |-> <<0, 0, v[2] * TempoDefault>>,
   notes |-> addChannels(v[1], 0)]

\* the events of one track of a MIDIFile, in the order they were added
Track(m, c) == SelectSeq(m.notes, LAMBDA e : e.track = c)

---------------------------------------------------------------------------
(* The normalizers on their own: one raw column entry, padded *)

PadValues == {0, 9}

InitPad ==
  /\ pc = "raw"
  /\ op = Idle
  /\ \/ /\ data \in { [lyrics |-> <<l>>] : l \in SeqsUpTo(0..MaxTok, MaxLyrLen) }
        /\ pv \in PadValues
     \/ /\ data \in { [note |-> <<m>>] :
                        m \in SeqsUpTo(SeqsUpTo(1..MaxNoteEmb, MaxEv), MaxCh) }
        /\ pv = 0
  /\ padded = <<>>
  /\ records = <<>> /\ batch_size = <<>> /\ heap = <<>> /\ ds = <<>>
  /\ result = NoResult /\ vec = <<>> /\ midi = NoMidi

PadLyrics ==
  /\ pc = "raw"
  /\ "lyrics" \in DOMAIN data
  /\ padded' = padLyrics(data, pv)
  /\ pc' = "padded"
  /\ op' = [Idle EXCEPT !.name = "padLyrics"]
  /\ UNCHANGED <<records, batch_size, heap, ds, result, data, pv, vec, midi>>

PadNote ==
  /\ pc = "raw"
  /\ "note" \in DOMAIN data
  /\ padded' = padNote(data)
  /\ pc' = "padded"
  /\ op' = [Idle EXCEPT !.name = "padNote"]
  /\ UNCHANGED <<records, batch_size, heap, ds, result, data, pv, vec, midi>>

NextPad == PadLyrics \/ PadNote

SpecPad == InitPad /\ [][NextPad]_vars

---------------------------------------------------------------------------
(* Normalize, then decode: one (note, tempo) example through padNote and   *)
(* vec2midi, or through vec2midi as it is                                  *)

\* MIDIFile(Ci) has Ci tracks and addNote(track=channel) needs the track, so a
\* note matrix given to vec2midi has at most Ci channels; its channels may be
\* of any length (model output, or a column entry before or after padNote).
InitMidi ==
  /\ pc = "raw"
  /\ op = Idle
  /\ data \in { [note |-> <<m>>, tempo |-> <<t>>] :
                  m \in SeqsUpTo(SeqsUpTo(Emb, MaxEv), Ci), t \in Tempos }
  /\ pv = 0
  /\ padded = <<>>
  /\ records = <<>> /\ batch_size = <<>> /\ heap = <<>> /\ ds = <<>>
  /\ result = NoResult /\ vec = <<>> /\ midi = NoMidi

Normalize ==
  /\ pc = "raw"
  /\ padded' = padNote(data)
  /\ pc' = "padded"
  /\ op' = [Idle EXCEPT !.name = "padNote"]
  /\ UNCHANGED <<records, batch_size, heap, ds, result, data, pv, vec, midi>>

DecodeRaw ==
  /\ pc = "raw"
  /\ vec' = <<data.note[1], data.tempo[1]>>
  /\ midi' = vec2midi(vec')
  /\ pc' = "decoded"
  /\ op' = [Idle EXCEPT !.name = "vec2midi"]
  /\ UNCHANGED <<records, batch_size, heap, ds, result, data, pv, padded>>

DecodePadded ==
  /\ pc = "padded"
  /\ vec' = <<padded[1], data.tempo[1]>>
  /\ midi' = vec2midi(vec')
  /\ pc' = "decoded"
  /\ op' = [Idle EXCEPT !.name = "vec2midi"]
  /\ UNCHANGED <<records, batch_size, heap, ds, result, data, pv, padded>>

NextMidi == Normalize \/ DecodeRaw \/ DecodePadded

SpecMidi == InitMidi /\ [][NextMidi]_vars

---------------------------------------------------------------------------
(* class Dataset *)

\* one pass of "for data in [self.inp, self.tar]" of __init__ over a dict
padBundle(b, p) ==
  LET b1 == IF "lyrics" \in DOMAIN b THEN [b EXCEPT !.lyrics = padLyrics(b, p)] ELSE b
  IN  IF "note" \in DOMAIN b1 THEN [b1 EXCEPT !.note = padNote(b1)] ELSE b1

\* self.size after that pass
sizeAfter(b, size) ==
  IF "note" \in DOMAIN b THEN Len(b.note)
  ELSE IF "lyrics" \in DOMAIN b THEN Len(b.lyrics)
  ELSE size

\* Dataset(inp, tar, batch_size, pad_value): the heap it leaves and the object;
\* inp and tar are references, and the second pass sees the first one's writes
DatasetInit(h, inp, tar, bs, p) ==
  LET h1 == [h EXCEPT ![inp] = padBundle(h[inp], p)]
      s1 == sizeAfter(h1[inp], None)
      h2 == [h1 EXCEPT ![tar] = padBundle(h1[tar], p)]
      s2 == sizeAfter(h2[tar], s1)
  IN  [heap |-> h2, obj |-> [inp |-> inp, tar |-> tar, bs |-> bs, size |-> s2]]

lenFloor(o) == o.size \div o.bs

\* __len__
len(o) == (o.size + o.bs - 1) \div o.bs

OutOfRangeStrict(i, n) == i > n

\* if i >= len(self): raise IndexError
OutOfRange(i, n) == i >= n

sliceBeginNext(bs, i) == bs * i + 1

\* begin = self.bs * i
sliceBegin(bs, i) == bs * i

\* end = begin + self.bs; if end >= self.size: end = None
sliceEnd(begin, bs, size) == IF begin + bs >= size THEN None ELSE begin + bs

\* torch.Tensor(list): the values of the list, as a tensor
Tensor(list) == [tensor |-> list]

\* pair[n] for one dict: the lyrics slice, overwritten by (note, tempo) if carried
side(b, begin, end) ==
  IF "note" \in DOMAIN b
    THEN [shape |-> "tuple", note |-> Tensor(PySlice(b.note, begin, end)),
          tempo |-> Tensor(PySlice(b.tempo, begin, end))]
  ELSE IF "lyrics" \in DOMAIN b
    THEN [shape |-> "Tensor", lyrics |-> Tensor(PySlice(b.lyrics, begin, end))]
  ELSE [shape |-> "None"]

\* __getitem__
getitem(h, o, i) ==
  IF OutOfRange(i, len(o))
    THEN [kind |-> "IndexError", index |-> i, bound |-> len(o) - 1, pair |-> <<>>]
  ELSE LET begin == sliceBegin(o.bs, i)
           end == sliceEnd(begin, o.bs, o.size)
       IN  [kind |-> "pair", index |-> -1, bound |-> -1,
            pair |-> <<side(h[o.inp], begin, end), side(h[o.tar], begin, end)>>]

\* list(zip(*data)): the rows of a list of columns
zipCols(cols) ==
  IF cols = <<>> THEN <<>>
  ELSE LET n == CHOOSE m \in { Len(cols[c]) : c \in 1..Len(cols) } :
                  \A c \in 1..Len(cols) : m <= Len(cols[c])
       IN  [k \in 1..n |-> [c \in 1..Len(cols) |-> cols[c][k]]]

\* [list(d) for d in zip(*rows)]: back to columns; no rows, no columns
unzipRows(rows) ==
  IF rows = <<>> THEN <<>>
  ELSE [c \in 1..Len(rows[1]) |-> [k \in 1..Len(rows) |-> rows[k][c]]]

\* for k, v in zip(dict, cols): dict[k] = v
assignCols(b, cols) ==
  [key \in DOMAIN b |->
     IF \E j \in 1..Min(Len(Keys(b)), Len(cols)) : Keys(b)[j] = key
       THEN cols[CHOOSE j \in 1..Len(cols) : Keys(b)[j] = key]
       ELSE b[key]]

\* the permutations random.shuffle can apply to n rows
Perms(n) == { p \in [1..n -> 1..n] : \A a, b \in 1..n : p[a] = p[b] => a = b }

\* data = list(self.inp.values()) + list(self.tar.values()), zipped
rowsOf(h, o) == zipCols(Values(h[o.inp]) \o Values(h[o.tar]))

shuffleSeparate(h, o, p) ==
  LET cols == Values(h[o.inp]) \o Values(h[o.tar])
      rows == zipCols(cols)
      dat == unzipRows([k \in 1..Len(rows) |-> rows[p[k]]])
      ninp == Len(Keys(h[o.inp]))
      h1 == [h EXCEPT ![o.inp] = assignCols(h[o.inp], PySlice(dat, 0, ninp))]
  IN  [h1 EXCEPT ![o.tar] = assignCols(h1[o.tar], PySlice(cols, ninp, None))]

shuffleRepeat(h, o, p) ==
  LET rows == zipCols(Values(h[o.inp]) \o Values(h[o.tar]))
      dat == unzipRows([k \in 1..Len(rows) |-> rows[p[1]]])
      ninp == Len(Keys(h[o.inp]))
      h1 == [h EXCEPT ![o.inp] = assignCols(h[o.inp], PySlice(dat, 0, ninp))]
  IN  [h1 EXCEPT ![o.tar] = assignCols(h1[o.tar], PySlice(dat, ninp, None))]

\* shuffle, with p the permutation random.shuffle draws: the heap it leaves
shuffle(h, o, p) ==
  LET rows == zipCols(Values(h[o.inp]) \o Values(h[o.tar]))
      dat == unzipRows([k \in 1..Len(rows) |-> rows[p[k]]])
      ninp == Len(Keys(h[o.inp]))
      h1 == [h EXCEPT ![o.inp] = assignCols(h[o.inp], PySlice(dat, 0, ninp))]
  IN  [h1 EXCEPT ![o.tar] = assignCols(h1[o.tar], PySlice(dat, Len(Keys(h1[o.inp])), None))]

\* load(filename), data being the rows read: the heap and the two datasets
load(rows, bss) ==
  LET inp == [lyrics |-> [k \in 1..Len(rows) |-> rows[k].lyrics]]
      tar == [note |-> [k \in 1..Len(rows) |-> rows[k].note],
              tempo |-> [k \in 1..Len(rows) |-> rows[k].tempo]]
      tr == DatasetInit([inp |-> inp, tar |-> tar], "inp", "tar", bss.tr, 0)
      ae == DatasetInit(tr.heap, "tar", "tar", bss.ae, 0)
  IN  [heap |-> ae.heap, ds |-> [tr |-> tr.obj, ae |-> ae.obj]]

---------------------------------------------------------------------------
(* The datasets of load(): loaded once, then shuffled and read in any order *)

\* three rows of a record file, no two alike in any field
Pool ==
  << [lyrics |-> <<1>>, note |-> << <<1>> >>, tempo |-> 1],
     [lyrics |-> <<1, 2, 1>>, note |-> << <<2, 3>>, <<4, 1, 2>>, <<3>> >>, tempo |-> 2],
     [lyrics |-> <<2, 2>>, note |-> << >>, tempo |-> 3] >>

Datasets == {"tr", "ae"}

Unused ==
  /\ data = <<>> /\ pv = 0 /\ padded = <<>> /\ vec = <<>> /\ midi = NoMidi

\* the batch sizes of the shuffling runs
ShuffleBatches == {1, 2}

\* A record file has at least one row: of a file with none pd.read_json gives
\* a frame without a lyrics column, and load() raises before any Dataset is built.

Init ==
  /\ pc = "file"
  /\ op = Idle
  /\ records \in { r \in SeqsUpTo({Pool[1], Pool[2]}, MaxSize) : Len(r) >= 1 }
  /\ batch_size \in [tr : ShuffleBatches, ae : ShuffleBatches]
  /\ heap = <<>>
  /\ ds = <<>>
  /\ result = NoResult
  /\ Unused

Load ==
  /\ pc = "file"
  /\ heap' = load(records, batch_size).heap
  /\ ds' = load(records, batch_size).ds
  /\ pc' = "loaded"
  /\ op' = [Idle EXCEPT !.name = "load"]
  /\ UNCHANGED <<records, batch_size, result, data, pv, padded, vec, midi>>

Shuffle(d) ==
  /\ pc = "loaded"
  /\ \E p \in Perms(Len(rowsOf(heap, ds[d]))) : heap' = shuffle(heap, ds[d], p)
  /\ result' = NoResult
  /\ op' = [name |-> "shuffle", d |-> d, i |-> -1]
  /\ UNCHANGED <<pc, records, batch_size, ds, data, pv, padded, vec, midi>>

GetItem(d, i) ==
  /\ pc = "loaded"
  /\ result' = getitem(heap, ds[d], i)
  /\ op' = [name |-> "getitem", d |-> d, i |-> i]
  /\ UNCHANGED <<pc, records, batch_size, heap, ds, data, pv, padded, vec, midi>>

Next ==
  \/ Load
  \/ \E d \in Datasets : Shuffle(d)
  \/ \E d \in Datasets, i \in 0..MaxSize : GetItem(d, i)

Spec == Init /\ [][Next]_vars

---------------------------------------------------------------------------
(* The same datasets, larger and only read: batches by index *)

InitBatch ==
  /\ pc = "file"
  /\ op = Idle
  /\ \E n \in 1..MaxFile, off \in 0..2 :
       records = [k \in 1..n |-> Pool[((k + off) % 3) + 1]]
  /\ batch_size \in [tr : 1..MaxBatch, ae : 1..MaxBatch]
  /\ heap = <<>>
  /\ ds = <<>>
  /\ result = NoResult
  /\ Unused

NextBatch ==
  \/ Load
  \/ \E d \in Datasets, i \in 0..MaxFile : GetItem(d, i)

SpecBatch == InitBatch /\ [][NextBatch]_vars

---------------------------------------------------------------------------
(* Properties *)

\* the values at index k of every column of a dataset's inp and tar
RowAt(h, o, k) ==
  << [key \in DOMAIN h[o.inp] |-> h[o.inp][key][k]],
     [key \in DOMAIN h[o.tar] |-> h[o.tar][key][k]] >>

ColumnsHaveLen(h, o, n) ==
  \A ref \in {o.inp, o.tar} : \A key \in DOMAIN h[ref] : Len(h[ref][key]) = n

IsShuffleOf(o, d) == o.name = "shuffle" /\ o.d = d

Count(v, s) == Cardinality({ k \in DOMAIN s : s[k] = v })

\* ceil(a / b), from its definition
CeilDiv(a, b) == CHOOSE n \in 0..a : n * b >= a /\ (n = 0 \/ (n - 1) * b < a)

RECURSIVE Flatten(_)
Flatten(ss) == IF ss = <<>> THEN <<>> ELSE Head(ss) \o Flatten(Tail(ss))

\* C1: a shuffle() of a dataset leaves, at every index k, the values of all
\* columns of inp and tar that stood together at one single index before the
\* call: no column is permuted differently from another.
C1_ShufflePreservesPairing ==
  [][\A d \in Datasets : IsShuffleOf(op', d) =>
       /\ ColumnsHaveLen(heap', ds'[d], ds[d].size)
       /\ \A k \in 1..ds[d].size : \E j \in 1..ds[d].size :
            RowAt(heap', ds'[d], k) = RowAt(heap, ds[d], j)]_vars

\* the translator dataset was shuffled, and its two rows have changed places whole
C1_Witness ==
  /\ IsShuffleOf(op, "tr")
  /\ records = <<Pool[1], Pool[2]>>
  /\ heap["inp"].lyrics = <<padLyrics1(Pool[2].lyrics, 0), padLyrics1(Pool[1].lyrics, 0)>>
  /\ heap["tar"].tempo = <<2, 1>>
  /\ heap["tar"].note = <<padNote1(Pool[2].note), padNote1(Pool[1].note)>>

\* C9: a shuffle() of a dataset changes the order of its columns only: every
\* column of inp and tar holds the same entries as many times as before and
\* keeps its length, each dict keeps its keys, and size, batch size and the
\* number of batches are as before.
C9_ShuffleOnlyReorders ==
  [][\A d \in Datasets : IsShuffleOf(op', d) =>
       /\ ds' = ds
       /\ len(ds'[d]) = len(ds[d])
       /\ \A ref \in {ds[d].inp, ds[d].tar} :
            /\ DOMAIN heap'[ref] = DOMAIN heap[ref]
            /\ \A key \in DOMAIN heap[ref] :
                 /\ Len(heap'[ref][key]) = Len(heap[ref][key])
                 /\ \A v \in Range(heap[ref][key]) \cup Range(heap'[ref][key]) :
                      Count(v, heap'[ref][key]) = Count(v, heap[ref][key])]_vars

\* the autoencoder dataset was shuffled, and its three rows stand in reverse
C9_Witness ==
  /\ IsShuffleOf(op, "ae")
  /\ records = <<Pool[1], Pool[2], Pool[1]>>
  /\ heap["tar"].tempo = <<1, 1, 2>>
  /\ ds["ae"].size = 3

\* C10: whatever shuffle() calls were made on the two datasets of load(), the
\* translator dataset is paired: at every index its lyrics, note and tempo
\* entries are those of one row of the record file.
C10_TranslatorStaysPaired ==
  pc = "loaded" =>
    \A k \in 1..ds["tr"].size : \E r \in 1..Len(records) :
      /\ heap[ds["tr"].inp].lyrics[k] = padLyrics1(records[r].lyrics, 0)
      /\ heap[ds["tr"].tar].note[k] = padNote1(records[r].note)
      /\ heap[ds["tr"].tar].tempo[k] = records[r].tempo

\* the batches of a dataset's side, column by column, in index order
BatchColumn(h, o, s, col) ==
  [i \in 1..CeilDiv(o.size, o.bs) |-> getitem(h, o, i - 1).pair[s][col].tensor]

BatchSizesOk(o, batches) ==
  \A i \in 1..Len(batches) :
    Len(batches[i]) = IF i < Len(batches) THEN o.bs
                      ELSE o.size - o.bs * (Len(batches) - 1)

SideCovers(h, o, s, b) ==
  IF "note" \in DOMAIN b
    THEN /\ \A i \in 0..(CeilDiv(o.size, o.bs) - 1) :
              getitem(h, o, i).pair[s].shape = "tuple"
         /\ Flatten(BatchColumn(h, o, s, "note")) = b.note
         /\ Flatten(BatchColumn(h, o, s, "tempo")) = b.tempo
         /\ BatchSizesOk(o, BatchColumn(h, o, s, "note"))
         /\ BatchSizesOk(o, BatchColumn(h, o, s, "tempo"))
    ELSE /\ \A i \in 0..(CeilDiv(o.size, o.bs) - 1) :
              getitem(h, o, i).pair[s].shape = "Tensor"
         /\ Flatten(BatchColumn(h, o, s, "lyrics")) = b.lyrics
         /\ BatchSizesOk(o, BatchColumn(h, o, s, "lyrics"))

\* C2: the batches __getitem__ returns for i = 0 .. batchCount-1, put end to
\* end, are each carried column (lyrics, or note and tempo) exactly; every
\* batch but the last has batchSize entries, the last size - batchSize *
\* (batchCount - 1); and a call with such an i returns that batch.
C2_BatchCoverage ==
  pc = "loaded" =>
    \A d \in Datasets :
      /\ \A i \in 0..(CeilDiv(ds[d].size, ds[d].bs) - 1) :
           getitem(heap, ds[d], i).kind = "pair"
      /\ SideCovers(heap, ds[d], 1, heap[ds[d].inp])
      /\ SideCovers(heap, ds[d], 2, heap[ds[d].tar])
      /\ (op.name = "getitem" /\ op.d = d /\ op.i < CeilDiv(ds[d].size, ds[d].bs))
           => result = getitem(heap, ds[d], op.i)

\* the last of the batches 3, 3, 1 of seven rows was read
C2_Witness ==
  /\ op = [name |-> "getitem", d |-> "tr", i |-> 2]
  /\ ds["tr"].size = 7 /\ ds["tr"].bs = 3
  /\ result.kind = "pair"
  /\ Len(result.pair[1].lyrics.tensor) = 1
  /\ result.pair[2].tempo.tensor = <<heap["tar"].tempo[7]>>

\* C3: __getitem__(i) with i >= ceil(size / batchSize) raises the range error,
\* which carries i and the last valid index, and leaves the dicts and the
\* dataset objects (inp, tar, size, batch size) as they were.
C3_OutOfRange ==
  [][\A d \in Datasets :
       (op'.name = "getitem" /\ op'.d = d /\ op'.i >= CeilDiv(ds[d].size, ds[d].bs)) =>
          /\ result'.kind = "IndexError"
          /\ result'.index = op'.i
          /\ result'.bound = CeilDiv(ds[d].size, ds[d].bs) - 1
          /\ heap' = heap
          /\ ds' = ds]_vars

\* batch 3 of seven rows in batches of three was asked for
C3_Witness ==
  /\ op = [name |-> "getitem", d |-> "tr", i |-> 3]
  /\ ds["tr"].size = 7 /\ ds["tr"].bs = 3
  /\ result = [kind |-> "IndexError", index |-> 3, bound |-> 2, pair |-> <<>>]

\* C4: padNote returns, for any note matrix, exactly Ci channels of exactly L
\* events: channel c is input channel c cut or zero-filled on the right for
\* c up to min(len, Ci), and all zeros beyond.
C4_NoteShape ==
  (pc = "padded" /\ op.name = "padNote" /\ "note" \in DOMAIN data) =>
    /\ Len(padded) = Len(data.note)
    /\ \A n \in 1..Len(padded) :
         /\ Len(padded[n]) = Ci
         /\ \A c \in 1..Ci :
              /\ Len(padded[n][c]) = L
              /\ \A j \in 1..L :
                   padded[n][c][j] =
                     IF c <= Len(data.note[n]) /\ j <= Len(data.note[n][c])
                       THEN data.note[n][c][j] ELSE 0

\* a matrix of Ci+1 channels, the first too long and the second empty, was padded
C4_Witness ==
  /\ pc = "padded" /\ op.name = "padNote" /\ "note" \in DOMAIN data
  /\ "tempo" \notin DOMAIN data
  /\ Len(data.note[1]) = Ci + 1
  /\ Len(data.note[1][1]) = L + 1
  /\ data.note[1][2] = <<>>
  /\ padded[1][2] = Repeat(0, L)

\* C5: padLyrics returns the first L_lyr tokens of a sequence that has at
\* least L_lyr, and otherwise the sequence followed by copies of the pad value
\* up to L_lyr; so L_lyr tokens come back unchanged, L_lyr+1 lose the last,
\* L_lyr-1 gain one pad value.
C5_LyricsReference ==
  (pc = "padded" /\ op.name = "padLyrics") =>
    /\ Len(padded) = Len(data.lyrics)
    /\ \A n \in 1..Len(padded) :
         LET lyr == data.lyrics[n]
             out == padded[n]
         IN  /\ Len(out) = LyricsL
             /\ \A j \in 1..LyricsL : out[j] = IF j <= Len(lyr) THEN lyr[j] ELSE pv
             /\ Len(lyr) = LyricsL => out = lyr
             /\ Len(lyr) = LyricsL + 1 => out = SubSeq(lyr, 1, Len(lyr) - 1)
             /\ Len(lyr) = LyricsL - 1 => out = Append(lyr, pv)

\* a sequence one short of L_lyr was padded with the pad value 9
C5_Witness ==
  /\ pc = "padded" /\ op.name = "padLyrics"
  /\ pv = 9
  /\ Len(data.lyrics[1]) = LyricsL - 1
  /\ padded[1] = data.lyrics[1] \o <<9>>

\* the time delta the decoder gives an embedding
Delta(note_emb) == id2Note(note_emb)[feat2id.time]

RECURSIVE SumDeltas(_, _)
SumDeltas(channel_notes, n) ==
  IF n = 0 THEN 0 ELSE SumDeltas(channel_notes, n - 1) + Delta(channel_notes[n])

Onsets(m, c) == [n \in 1..Len(Track(m, c)) |-> Track(m, c)[n].time]

\* C6: vec2midi emits, for every channel, one event per embedding, in order,
\* on the track and channel of the channel's index, the n-th at the sum of the
\* time deltas of the channel's embeddings 1..n, counted from 0 in each channel.
C6_CumulativeTime ==
  pc = "decoded" =>
    /\ \A k \in 1..Len(midi.notes) : midi.notes[k].track \in 0..(Len(vec[1]) - 1)
    /\ \A c \in 0..(Len(vec[1]) - 1) :
         /\ Len(Track(midi, c)) = Len(vec[1][c + 1])
         /\ \A n \in 1..Len(vec[1][c + 1]) :
              /\ Track(midi, c)[n].time = SumDeltas(vec[1][c + 1], n)
              /\ Track(midi, c)[n].channel = c
              /\ Track(midi, c)[n].pitch = id2Note(vec[1][c + 1][n])[feat2id.pitch]

\* deltas 5, 0, 3 on channel 0 came out at 5, 5, 8, and channel 1 began at 0 again
C6_Witness ==
  /\ pc = "decoded"
  /\ vec[1] = << <<2, 0, 3>>, <<3>> >>
  /\ Onsets(midi, 0) = <<5, 5, 8>>
  /\ Onsets(midi, 1) = <<3>>

\* C7 as stated: the matrix [[e1]] is normalized to [[e1, 0], [0, 0]], and
\* decoding that gives track 0 one event at onset 10 and leaves track 1 empty.
C7_PadsDecodeToNothing ==
  (pc = "decoded" /\ padded # <<>> /\ data.note[1] = << <<1>> >>) =>
    /\ padded[1] = << <<1, 0>>, <<0, 0>> >>
    /\ Onsets(midi, 0) = <<10>>
    /\ Track(midi, 1) = <<>>

\* C7, amended: the matrix [[e1]] is normalized to [[e1, 0], [0, 0]]; decoding
\* the normalized matrix gives every slot an event, pads too: track 0 has e1
\* at onset 10 (pitch 60) and then the decoded pad, track 1 two decoded pads.
\* Decoding [[e1]] as it is gives track 0 one event at onset 10, track 1 none.
C7_NormalizeThenDecode ==
  (pc \in {"padded", "decoded"} /\ data.note[1] = << <<1>> >>) =>
    /\ padded # <<>> => padded[1] = << <<1, 0>>, <<0, 0>> >>
    /\ (pc = "decoded" /\ padded # <<>>) =>
         /\ Onsets(midi, 0) = <<10, 10 + Delta(0)>>
         /\ Track(midi, 0)[1].pitch = 60
         /\ Track(midi, 0)[2].pitch = id2Note(0)[feat2id.pitch]
         /\ Onsets(midi, 1) = <<Delta(0), Delta(0) + Delta(0)>>
    /\ (pc = "decoded" /\ padded = <<>>) =>
         /\ Onsets(midi, 0) = <<10>>
         /\ Track(midi, 0)[1].pitch = 60
         /\ Track(midi, 1) = <<>>

\* [[e1]] was normalized and decoded, and track 1 holds two events
C7_Witness ==
  /\ pc = "decoded" /\ padded # <<>>
  /\ data.note[1] = << <<1>> >>
  /\ Len(Track(midi, 1)) = 2
  /\ Len(Track(midi, 0)) = 2

NonDecreasing(s) == \A n \in 1..(Len(s) - 1) : s[n] <= s[n + 1]

\* C8 as stated: in every channel of every decoded score the onsets never
\* decrease, whatever time deltas the decoder returns.
C8_OnsetsNeverDecrease ==
  pc = "decoded" => \A c \in 0..(Ci - 1) : NonDecreasing(Onsets(midi, c))

\* C8, amended: in a channel whose decoded time deltas, after the first, are
\* all non-negative, the onsets never decrease.
C8_OnsetsOfNonNegativeDeltas ==
  pc = "decoded" =>
    \A c \in 0..(Len(vec[1]) - 1) :
      (\A k \in 2..Len(vec[1][c + 1]) : Delta(vec[1][c + 1][k]) >= 0)
        => NonDecreasing(Onsets(midi, c))

\* deltas -3, 5, 0 came out at -3, 2, 2
C8_Witness ==
  /\ pc = "decoded"
  /\ vec[1] = << <<4, 2, 0>> >>
  /\ Onsets(midi, 0) = <<-3, 2, 2>>

=============================================================================
